---- MODULE Spec2Model ----
(***************************************************************************)
(* LogitLossDelta (src/loss/logit_loss_delta.h): the logistic loss for     *)
(* block coordinate descent.  Predict accumulates X * delta_w into pred;   *)
(* CalcGrad computes the first-order gradient and, when configured, the    *)
(* diagonal Hessian into one output buffer.                                *)
(*                                                                         *)
(* C arrays are sequences: the C element a[i] is the sequence element      *)
(* a[i+1].  Offsets, column indices and positions keep their C values      *)
(* (0-based, negative position = absent).  A null pointer and an empty     *)
(* SArray are the empty sequence.                                          *)
(*                                                                         *)
(* real_t is a fixed-point number: the integer n stands for n / SCALE in   *)
(* the buffers that hold tau, p and the gradient; block values, delta_w    *)
(* and pred hold integer-valued reals.                                     *)
(***************************************************************************)
EXTENDS Integers, Sequences, FiniteSets, TLC

VARIABLES data, param_, mem, status, loc, calls

vars == <<data, param_, mem, status, loc, calls>>

-----------------------------------------------------------------------------
(* Bounds of the model *)

\* calls made on one evaluator
MaxCalls == 2
\* largest parameter list handed to a call
MaxPSize == 4
\* largest offset[0] of a block (a block with offset[0] > 0 is a slice)
MaxStart == 1
\* magnitude of a very large prediction
Huge == 40

-----------------------------------------------------------------------------
(* real_t *)

\* one unit of the fixed-point representation
SCALE == 1000
\* largest finite value; Inf stands for every larger one
MaxFinite == 500000
Inf == MaxFinite + 1

NULL == <<>>

Zeros(n) == [i \in 1..n |-> 0]

Abs(x) == IF x < 0 THEN -x ELSE x

ExpUp(e) ==
  IF e > MaxFinite THEN Inf
  ELSE IF (e * 2718) \div 1000 > MaxFinite THEN Inf
  ELSE (e * 2718) \div 1000

ExpDown(e) == (e * 1000) \div 2718

\* std::exp of an integer-valued argument: overflows to Inf, underflows to 0
RECURSIVE ExpFix(_)
ExpFix(z) ==
  IF z = 0 THEN SCALE
  ELSE IF z > 0 THEN ExpUp(ExpFix(z - 1))
  ELSE ExpDown(ExpFix(z + 1))

-----------------------------------------------------------------------------
(* dmlc::RowBlock<unsigned> *)

RECURSIVE Flatten(_)
Flatten(rows) ==
  IF rows = <<>> THEN <<>> ELSE Head(rows) \o Flatten(Tail(rows))

RECURSIVE Offsets(_, _)
Offsets(start, rows) ==
  IF rows = <<>> THEN <<start>>
  ELSE <<start>> \o Offsets(start + Len(Head(rows)), Tail(rows))

\* The block whose rows hold the column indices `rows`, as the slice that
\* begins at position `start` of the index and value arrays of a larger block.
\* The value at array position k is 1 + k % 3.
MkBlock(start, rows, hasValue, label) ==
  LET lead == [k \in 1..start |-> 0]
      idx == lead \o Flatten(rows)
  IN [size |-> Len(rows),
      offset |-> Offsets(start, rows),
      index |-> idx,
      value |-> IF hasValue THEN [k \in 1..Len(idx) |-> 1 + ((k - 1) % 3)]
                ELSE NULL,
      label |-> label]

\* D.value[k]; `past` is what lies in memory behind the end of the array
ValueAt(D, k, past) ==
  IF D.value = NULL THEN 1
  ELSE IF k < Len(D.value) THEN D.value[k + 1]
  ELSE past

\* the element of the dense vector x that the coordinate j selects; 0 when
\* the position mapping drops the coordinate
PosOf(pos, j) == IF pos = NULL THEN j ELSE pos[j + 1]

XAt(x, x_pos, j) ==
  IF PosOf(x_pos, j) < 0 THEN 0 ELSE x[PosOf(x_pos, j) + 1]

-----------------------------------------------------------------------------
(* SpMV *)

RECURSIVE RowDot(_, _, _, _, _, _)
RowDot(D, x, x_pos, k, last, past) ==
  IF k >= last THEN 0
  ELSE ValueAt(D, k, past) * XAt(x, x_pos, D.index[k + 1])
       + RowDot(D, x, x_pos, k + 1, last, past)

RECURSIVE TimesFrom(_, _, _, _, _, _, _)
TimesFrom(D, x, y, x_pos, y_pos, r, past) ==
  IF r >= D.size THEN y
  ELSE LET slot == PosOf(y_pos, r)
           y1 == IF slot < 0 THEN y
                 ELSE [y EXCEPT ![slot + 1] =
                         @ + RowDot(D, x, x_pos, D.offset[r + 1],
                                    D.offset[r + 2], past)]
       IN TimesFrom(D, x, y1, x_pos, y_pos, r + 1, past)

\* y += D * x
Times(D, x, y, x_pos, y_pos, past) == TimesFrom(D, x, y, x_pos, y_pos, 0, past)

\* the slots of y that Times writes
TimesSlots(D, y_pos) ==
  {PosOf(y_pos, r) : r \in {q \in 0..(D.size - 1) : PosOf(y_pos, q) >= 0}}

RECURSIVE TransRow(_, _, _, _, _, _, _)
TransRow(D, xr, y, y_pos, k, last, past) ==
  IF k >= last THEN y
  ELSE LET slot == PosOf(y_pos, D.index[k + 1])
           y1 == IF slot < 0 THEN y
                 ELSE [y EXCEPT ![slot + 1] = @ + ValueAt(D, k, past) * xr]
       IN TransRow(D, xr, y1, y_pos, k + 1, last, past)

RECURSIVE TransTimesFrom(_, _, _, _, _, _, _)
TransTimesFrom(D, x, y, x_pos, y_pos, r, past) ==
  IF r >= D.size THEN y
  ELSE LET y1 == IF PosOf(x_pos, r) < 0 THEN y
                 ELSE TransRow(D, XAt(x, x_pos, r), y, y_pos,
                               D.offset[r + 1], D.offset[r + 2], past)
       IN TransTimesFrom(D, x, y1, x_pos, y_pos, r + 1, past)

\* y += D^T * x
TransTimes(D, x, y, x_pos, y_pos, past) ==
  TransTimesFrom(D, x, y, x_pos, y_pos, 0, past)

-----------------------------------------------------------------------------
(* Memory.  The caller owns the buffers Bufs; a call allocates Temps and     *)
(* discards them on return.  A parameter list is a sequence of buffer names, *)
(* and an SArray constructed from another one shares its buffer.             *)

Bufs == {"delta_w", "w_pos", "pred", "grad_pos", "grad", "delta"}
Temps == {"p", "h_pos", "xx_value"}

Extend(m) == [b \in Bufs \cup Temps |-> IF b \in Bufs THEN m[b] ELSE <<>>]
Restrict(heap) == [b \in Bufs |-> heap[b]]

\* the parameter list the caller hands to Predict: delta_w, then w_pos
PredictArgs(psize) ==
  [i \in 1..psize |->
     IF i = 1 THEN "delta_w" ELSE IF i = 2 THEN "w_pos" ELSE "delta"]

\* the parameter list the caller hands to CalcGrad: pred, grad_pos, delta
CalcGradArgs(psize) ==
  [i \in 1..psize |->
     IF i = 1 THEN "pred" ELSE IF i = 2 THEN "grad_pos" ELSE "delta"]

\* the locals of a call as it ends: stage 1 after the gradient multiply,
\* 2 after the curvature weights, 3 after the Hessian multiply
NoLoc(op, psize) ==
  [op |-> op, psize |-> psize, stage |-> 0, tau |-> <<>>, p |-> <<>>,
   h_pos |-> <<>>, xx_value |-> <<>>, XX |-> MkBlock(0, <<>>, FALSE, NULL),
   gslots |-> {}, hslots |-> {}]

-----------------------------------------------------------------------------
(* LogitLossDelta::Predict *)

PredictSizeOk(psize) == psize >= 1 /\ psize <= 2

WPos(heap, param) == IF Len(param) = 2 THEN heap[param[2]] ELSE NULL

\* mutant of Predict: the product overwrites pred
PredictOverwrite(D, heap, param, pred) ==
  IF ~PredictSizeOk(Len(param))
  THEN [status |-> "fatal", heap |-> heap, loc |-> NoLoc("Predict", Len(param))]
  ELSE [status |-> "ok",
        heap |-> [heap EXCEPT ![pred] =
                    TransTimes(D, heap[param[1]], Zeros(Len(heap[pred])),
                               WPos(heap, param), NULL, 0)],
        loc |-> NoLoc("Predict", Len(param))]

Predict(D, heap, param, pred) ==
  IF ~PredictSizeOk(Len(param))
  THEN [status |-> "fatal", heap |-> heap, loc |-> NoLoc("Predict", Len(param))]
  ELSE [status |-> "ok",
        heap |-> [heap EXCEPT ![pred] =
                    TransTimes(D, heap[param[1]], heap[pred],
                               WPos(heap, param), NULL, 0)],
        loc |-> NoLoc("Predict", Len(param))]

-----------------------------------------------------------------------------
(* LogitLossDelta::CalcGrad *)

CalcGradSizeOk(psize) == psize >= 1 /\ psize <= 3

\* mutant of PBuf: p shares the buffer of param[0]
PBufShared(param) == param[1]

\* p.CopyFrom(...) gives p a buffer of its own
PBuf(param) == "p"

Sign(lab) == IF lab > 0 THEN 1 ELSE -1

\* mutant of TauAt: y / (1 + exp(y * p))
TauAtNoMinus(lab, pr) ==
  IF ExpFix(Sign(lab) * pr) > MaxFinite THEN 0
  ELSE Sign(lab) * ((SCALE * SCALE) \div (SCALE + ExpFix(Sign(lab) * pr)))

\* - y / (1 + exp(y * p))
TauAt(lab, pr) ==
  IF ExpFix(Sign(lab) * pr) > MaxFinite THEN 0
  ELSE (-Sign(lab)) * ((SCALE * SCALE) \div (SCALE + ExpFix(Sign(lab) * pr)))

TauLoop(label, p) == [i \in 1..Len(p) |-> TauAt(label[i], p[i])]

\* mutant of GradPos: the mapping is taken only from a 3-entry list
GradPosLate(heap, param) == IF Len(param) > 2 THEN heap[param[2]] ELSE NULL

GradPos(heap, param) == IF Len(param) > 1 THEN heap[param[2]] ELSE NULL

NoHessian(flags) ==
  flags.compute_diag_hession = 0 /\ flags.compute_upper_diag_hession = 0

\* h_pos.CopyFrom(grad_pos) gives h_pos a buffer of its own
HPosBuf(param) == "h_pos"

HPos(h_pos) ==
  [i \in 1..Len(h_pos) |-> IF h_pos[i] >= 0 THEN h_pos[i] + 1 ELSE h_pos[i]]

XXValue(D) ==
  [i \in 1..(D.offset[D.size + 1] - D.offset[1]) |->
     D.value[i + D.offset[1]] * D.value[i + D.offset[1]]]

\* mutant of CurvAt: tau = p
CurvAtNoSign(lab, t) == (t * (SCALE - t)) \div SCALE

\* tau = - y * p;  p = tau * (1 - tau)
CurvAt(lab, t) ==
  (((-Sign(lab)) * t) * (SCALE - ((-Sign(lab)) * t))) \div SCALE

CurvLoop(label, p) == [i \in 1..Len(p) |-> CurvAt(label[i], p[i])]

\* mutant of DiagBranch: the upper bound flag takes the diagonal branch too
DiagOrUpperBranch(flags) ==
  flags.compute_diag_hession # 0 \/ flags.compute_upper_diag_hession # 0

DiagBranch(flags) == flags.compute_diag_hession # 0

\* mutant of UpperCheck: any non-empty list passes
UpperCheckAny(psize) == psize >= 1

UpperCheck(psize) == psize = 3

\* lines 105-137, entered with the gradient in heap[grad]
Hessian(D, flags, heap, param, grad, past, tau, gslots) ==
  LET psize == Len(param)
      pb == PBuf(param)
      hb == HPosBuf(param)
      h4 == [heap EXCEPT ![hb] = GradPos(heap, param)]
      h5 == [h4 EXCEPT ![hb] = HPos(h4[hb])]
      h6 == IF D.value = NULL THEN h5
            ELSE [h5 EXCEPT !["xx_value"] = XXValue(D)]
      XX == IF D.value = NULL THEN D ELSE [D EXCEPT !.value = h6["xx_value"]]
      h7 == [h6 EXCEPT ![pb] = CurvLoop(D.label, h6[pb])]
      l7 == [op |-> "CalcGrad", psize |-> psize, stage |-> 2, tau |-> tau,
             p |-> h7[pb], h_pos |-> h7[hb], xx_value |-> h7["xx_value"],
             XX |-> XX, gslots |-> gslots, hslots |-> {}]
  IN IF DiagBranch(flags)
     THEN [status |-> "ok",
           heap |-> [h7 EXCEPT ![grad] =
                       Times(XX, h7[pb], h7[grad], NULL, h7[hb], past)],
           loc |-> [l7 EXCEPT !.stage = 3, !.hslots = TimesSlots(XX, h7[hb])]]
     ELSE IF ~UpperCheck(psize)
     THEN [status |-> "fatal", heap |-> h7, loc |-> l7]
     ELSE [status |-> "ok", heap |-> h7, loc |-> l7]

CalcGrad(D, flags, heap, param, grad, past) ==
  LET psize == Len(param)
      pb == PBuf(param)
  IN IF ~CalcGradSizeOk(psize)
     THEN [status |-> "fatal", heap |-> heap, loc |-> NoLoc("CalcGrad", psize)]
     ELSE
       LET h1 == [heap EXCEPT ![pb] = heap[param[1]]]
       IN IF D.label = NULL
          THEN [status |-> "fatal", heap |-> h1,
                loc |-> NoLoc("CalcGrad", psize)]
          ELSE
            LET h2 == [h1 EXCEPT ![pb] = TauLoop(D.label, h1[pb])]
                h3 == [h2 EXCEPT ![grad] =
                         Times(D, h2[pb], h2[grad], NULL, GradPos(h2, param),
                               past)]
                gslots == TimesSlots(D, GradPos(h2, param))
                l3 == [NoLoc("CalcGrad", psize) EXCEPT
                         !.stage = 1, !.tau = h2[pb], !.gslots = gslots]
            IN IF NoHessian(flags)
               THEN [status |-> "ok", heap |-> h3, loc |-> l3]
               ELSE Hessian(D, flags, h3, param, grad, past, h2[pb], gslots)

-----------------------------------------------------------------------------
(* Inputs *)

RowPatterns ==
  { << <<0>>, <<0, 1>> >>, << <<0, 1>>, <<>> >>, << <<1>>, <<0>> >> }

\* one label per entry of pred; zero counts as negative
LabelVals == {-1, 0, 1}
Labels == [1..2 -> LabelVals]

FlagSet ==
  [compute_diag_hession : {0, 1}, compute_upper_diag_hession : {0, 1}]

\* DMLC_DECLARE_FIELD(...).set_default(...)
DefaultFlags ==
  [compute_diag_hession |-> 0, compute_upper_diag_hession |-> 1]

Shapes ==
  {MkBlock(s, rows, hv, <<1, -1>>) :
     s \in 0..MaxStart, rows \in RowPatterns, hv \in BOOLEAN}

\* a buffer the caller has not zeroed: 5, 6, 7, ...
Filled(n) == [i \in 1..n |-> 4 + i]

\* position mappings of a dense vector of D.size coordinates into a backing
\* array of `len` elements
PosMaps(D, len) == [1..D.size -> -1..(len - 1)]

Injective(pos) ==
  \A i, j \in 1..Len(pos) : (i # j /\ pos[i] >= 0) => pos[i] # pos[j]

\* every kept coordinate has a slot of its own, and the slot and the one
\* after it lie inside the buffer of 2 * D.size elements
GradPosMaps(D) ==
  {pos \in PosMaps(D, 2 * D.size - 1) : Injective(pos)} \cup {NULL}

Mem(dw, wp, pr, gp, gr) ==
  [delta_w |-> dw, w_pos |-> wp, pred |-> pr, grad_pos |-> gp, grad |-> gr,
   delta |-> <<1, 1>>]

\* the predictor's inputs vary
InitPredict ==
  \E D \in Shapes, dw \in [1..2 -> {-1, 0, 2}],
     wp \in {<<0, 1>>, <<1, 0>>, <<-1, 1>>, <<0, -1>>, <<1, 1>>},
     pr \in {<<0, 0>>, <<1, -2>>} :
       /\ data = D
       /\ param_ = DefaultFlags
       /\ mem = Mem(dw, wp, pr, <<0, 2>>, Zeros(2 * D.size))

\* the block, the flags and the gradient positions vary
InitGrad ==
  \E D \in Shapes, f \in FlagSet :
    \E gp \in GradPosMaps(D), gr \in {Zeros(2 * D.size), Filled(2 * D.size)} :
       /\ data = D
       /\ param_ = f
       /\ mem = Mem(<<1, -1>>, <<0, 1>>, <<1, -2>>, gp, gr)

\* the labels, the predictions and the flags vary
InitLabel ==
  \E lab \in Labels \cup {NULL}, f \in FlagSet,
     pr \in {<<0, 0>>, <<1, -2>>, <<Huge, -Huge>>, <<-Huge, 3>>},
     gp \in {<<0, 2>>, <<1, 0>>} :
       /\ data = MkBlock(0, << <<0>>, <<0, 1>> >>, TRUE, lab)
       /\ param_ = f
       /\ mem = Mem(<<1, -1>>, <<0, 1>>, pr, gp, Filled(4))

Init ==
  /\ InitPredict \/ InitGrad \/ InitLabel
  /\ status = "ok"
  /\ loc = NoLoc("none", 0)
  /\ calls = 0

-----------------------------------------------------------------------------
(* Calls *)

PSizes == 0..MaxPSize

\* what a read behind the end of a buffer can return
PastEnd == {0, 7}

PredictCall(psize) ==
  /\ status = "ok"
  /\ calls < MaxCalls
  /\ LET r == Predict(data, mem, PredictArgs(psize), "pred")
     IN /\ mem' = r.heap
        /\ status' = r.status
        /\ loc' = r.loc
  /\ calls' = calls + 1
  /\ UNCHANGED <<data, param_>>

CalcGradCall(psize) ==
  /\ status = "ok"
  /\ calls < MaxCalls
  /\ \E past \in PastEnd :
       LET r == CalcGrad(data, param_, Extend(mem), CalcGradArgs(psize),
                         "grad", past)
       IN /\ mem' = Restrict(r.heap)
          /\ status' = r.status
          /\ loc' = r.loc
  /\ calls' = calls + 1
  /\ UNCHANGED <<data, param_>>

Next ==
  \/ \E psize \in PSizes : PredictCall(psize)
  \/ \E psize \in PSizes : CalcGradCall(psize)

Spec == Init /\ [][Next]_vars

-----------------------------------------------------------------------------
(* Properties *)

\* a call has just ended
Called(op) == calls' = calls + 1 /\ loc'.op = op

\* the row of the block that holds array position k
RowOf(D, k) ==
  CHOOSE r \in 0..(D.size - 1) : D.offset[r + 1] <= k /\ k < D.offset[r + 2]

\* entry j of X * d, summed over the array positions from k on that hold column j
RECURSIVE XTimesD(_, _, _, _)
XTimesD(D, d, j, k) ==
  IF k >= D.offset[D.size + 1] THEN 0
  ELSE (IF D.index[k + 1] = j
        THEN (IF D.value = NULL THEN 1 ELSE D.value[k + 1]) * d[RowOf(D, k) + 1]
        ELSE 0)
       + XTimesD(D, d, j, k + 1)

\* the delta of every coordinate, as the parameter list of size psize gives it
EffDelta(m, psize) ==
  [r \in 1..Len(m.delta_w) |->
     IF psize < 2 \/ m.w_pos = NULL THEN m.delta_w[r]
     ELSE IF m.w_pos[r] < 0 THEN 0
     ELSE m.delta_w[m.w_pos[r] + 1]]

Twice(m) == [m EXCEPT !.delta_w = [i \in 1..Len(@) |-> 2 * @[i]]]

\* C1: a Predict call that returns leaves pred at its pre-call value plus
\* X * d, with or without a position mapping; calling again with the same d
\* gives what one call with 2 * d gives.
C1_PredictAccumulates ==
  [][(Called("Predict") /\ status' = "ok") =>
       /\ \A j \in 1..Len(mem.pred) :
            mem'.pred[j] = mem.pred[j]
              + XTimesD(data, EffDelta(mem, loc'.psize), j - 1, data.offset[1])
       /\ Predict(data, mem', PredictArgs(loc'.psize), "pred").heap.pred
            = Predict(data, Twice(mem), PredictArgs(loc'.psize), "pred").heap.pred
    ]_vars

\* the second of two calls was a Predict through a mapping that drops a
\* coordinate, on a slice, and pred has moved
C1_Witness ==
  /\ calls = 2 /\ loc.op = "Predict" /\ status = "ok" /\ loc.psize = 2
  /\ data.offset[1] > 0
  /\ \E r \in 1..Len(mem.w_pos) : mem.w_pos[r] < 0
  /\ mem.pred \notin {<<0, 0>>, <<1, -2>>}

NoFlags == [compute_diag_hession |-> 0, compute_upper_diag_hession |-> 0]

\* the gradient CalcGrad writes with no position mapping into a zeroed buffer
FullGrad(D, m) ==
  CalcGrad(D, NoFlags, Extend([m EXCEPT !.grad = Zeros(Len(@))]),
           CalcGradArgs(1), "grad", 0).heap["grad"]

KeptSlots(pos) == {pos[r] : r \in {q \in 1..Len(pos) : pos[q] >= 0}}

\* C2: the gradient written through a position mapping that gives the kept
\* coordinates slots of their own adds, at the slot of every kept
\* coordinate, the entry the unmapped call writes for that coordinate into a
\* zeroed buffer, and nothing is written outside the kept slots (the slots
\* the Hessian multiply adds to are left aside).
C2_RestrictedGradient ==
  [][(/\ Called("CalcGrad") /\ loc'.stage >= 1 /\ loc'.psize >= 2
      /\ mem.grad_pos # NULL) =>
       /\ \A r \in 1..data.size :
            (mem.grad_pos[r] >= 0 /\ mem.grad_pos[r] \notin loc'.hslots) =>
              mem'.grad[mem.grad_pos[r] + 1]
                = mem.grad[mem.grad_pos[r] + 1] + FullGrad(data, mem)[r]
       /\ \A s \in 0..(Len(mem.grad) - 1) :
            s \notin (KeptSlots(mem.grad_pos) \cup loc'.hslots) =>
              mem'.grad[s + 1] = mem.grad[s + 1]
    ]_vars

\* one coordinate dropped, the other kept with a non-zero gradient, every
\* other slot of the buffer still zero
C2_Witness ==
  /\ calls = 1 /\ loc.op = "CalcGrad" /\ loc.stage = 1 /\ loc.psize = 2
  /\ mem.grad_pos # NULL
  /\ \E r, q \in 1..Len(mem.grad_pos) :
       /\ mem.grad_pos[q] < 0
       /\ mem.grad_pos[r] >= 0
       /\ mem.grad[mem.grad_pos[r] + 1] # 0
       /\ \A s \in 1..Len(mem.grad) :
            s # mem.grad_pos[r] + 1 => mem.grad[s] = 0

\* the position mapping the last CalcGrad call used
UsedGradPos == IF loc.psize > 1 THEN mem.grad_pos ELSE NULL

\* no two kept coordinates share a slot or lie in neighbouring slots
Spaced(pos) ==
  \A i, j \in 1..Len(pos) :
    (i # j /\ pos[i] >= 0 /\ pos[j] >= 0) => Abs(pos[i] - pos[j]) >= 2

\* C3: after a CalcGrad call that computed the diagonal Hessian, with the
\* gradient position mapping present or absent, the slots the gradient
\* multiply wrote and the slots the Hessian multiply wrote are disjoint, and
\* the Hessian slot of every written coordinate is the slot after its
\* gradient slot.  (Stated for mappings that leave room for the Hessian
\* slots.)
C3_SlotsDisjoint ==
  (loc.op = "CalcGrad" /\ loc.stage = 3 /\ Spaced(UsedGradPos)) =>
    /\ loc.gslots \cap loc.hslots = {}
    /\ \A r \in 0..(data.size - 1) :
         PosOf(UsedGradPos, r) >= 0 =>
           PosOf(loc.h_pos, r) = PosOf(UsedGradPos, r) + 1

UpperOnly ==
  param_.compute_upper_diag_hession # 0 /\ param_.compute_diag_hession = 0

\* the buffer after the gradient multiply alone
FirstOrder(D, m, psize) ==
  CalcGrad(D, NoFlags, Extend(m), CalcGradArgs(psize), "grad", 0).heap["grad"]

\* C4 as claimed: a call with the upper bound flag alone and 3 parameters
\* returns, writes the gradient and leaves every slot grad_pos[i] + 1 at its
\* pre-call value.
C4_StubLeavesHessianSlots ==
  [][(Called("CalcGrad") /\ loc'.psize = 3 /\ UpperOnly /\ data.label # NULL) =>
       /\ status' = "ok"
       /\ mem'.grad = FirstOrder(data, mem, 3)
       /\ \A i \in 1..Len(mem.grad_pos) :
            mem.grad_pos[i] >= 0 =>
              mem'.grad[mem.grad_pos[i] + 2] = mem.grad[mem.grad_pos[i] + 2]
    ]_vars

\* C4 amended: a call with the upper bound flag alone, 3 parameters and a
\* label array returns, writes the gradient and leaves at its pre-call value
\* every slot grad_pos[i] + 1 that is not the gradient slot of a kept
\* coordinate, and every other slot outside the gradient slots.
C4_StubLeavesFreeSlots ==
  [][(Called("CalcGrad") /\ loc'.psize = 3 /\ UpperOnly /\ data.label # NULL) =>
       /\ status' = "ok"
       /\ mem'.grad = FirstOrder(data, mem, 3)
       /\ \A s \in 0..(Len(mem.grad) - 1) :
            s \notin loc'.gslots => mem'.grad[s + 1] = mem.grad[s + 1]
       /\ \A i \in 1..Len(mem.grad_pos) :
            (mem.grad_pos[i] >= 0 /\ mem.grad_pos[i] + 1 \notin loc'.gslots) =>
              mem'.grad[mem.grad_pos[i] + 2] = mem.grad[mem.grad_pos[i] + 2]
    ]_vars

\* the stub ran on a filled buffer: the gradient slots 0 and 2 are written,
\* the Hessian slots 1 and 3 keep 6 and 8
C4_Witness ==
  /\ calls = 1 /\ loc.op = "CalcGrad" /\ loc.psize = 3 /\ UpperOnly
  /\ status = "ok" /\ loc.stage = 2
  /\ mem.grad_pos = <<0, 2>>
  /\ mem.grad[1] # 5 /\ mem.grad[2] = 6 /\ mem.grad[3] # 7 /\ mem.grad[4] = 8

\* C5 as claimed: a CalcGrad call with the upper bound flag set and a list
\* of a size other than 3, or a size outside [1,3], or a null label array,
\* ends in a fatal failure.
C5_UpperNeedsThree ==
  (/\ loc.op = "CalcGrad"
   /\ \/ param_.compute_upper_diag_hession # 0 /\ loc.psize # 3
      \/ loc.psize \notin 1..3
      \/ data.label = NULL) =>
    status = "fatal"

\* C5 amended: a CalcGrad call with the upper bound flag set, the diagonal
\* flag unset and a list of a size other than 3, or a size outside [1,3], or
\* a null label array, ends in a fatal failure.
C5_UpperAloneNeedsThree ==
  (/\ loc.op = "CalcGrad"
   /\ \/ UpperOnly /\ loc.psize # 3
      \/ loc.psize \notin 1..3
      \/ data.label = NULL) =>
    status = "fatal"

\* the upper bound path was entered with 2 parameters and failed
C5_Witness ==
  /\ loc.op = "CalcGrad" /\ UpperOnly /\ loc.psize = 2 /\ data.label # NULL
  /\ loc.stage = 2 /\ status = "fatal"

\* C6: a call that ends in a fatal failure leaves the output buffers at
\* their pre-call values.
C6_FatalBeforeOutput ==
  [][(calls' = calls + 1 /\ status' = "fatal") =>
       mem'.grad = mem.grad /\ mem'.pred = mem.pred]_vars

\* C7: every curvature weight fed into the Hessian multiply lies in
\* [0, 0.25], whatever the label and however large the prediction.
C7_CurvatureRange ==
  (loc.op = "CalcGrad" /\ loc.stage = 3) =>
    \A i \in 1..Len(loc.p) : 0 <= loc.p[i] /\ 4 * loc.p[i] <= SCALE

\* the Hessian multiply ran on a very large negative prediction with a zero
\* label and on a moderate one
C7_Witness ==
  /\ loc.op = "CalcGrad" /\ loc.stage = 3
  /\ mem.pred[1] = -Huge /\ data.label[1] = 0 /\ loc.p[1] = 0
  /\ data.label[2] > 0 /\ loc.p[2] > 0

Output(op) == IF op = "Predict" THEN "pred" ELSE "grad"

\* C8: a call changes no buffer but its output buffer, and neither the
\* block nor the flags.
C8_OnlyOutputChanges ==
  [][(calls' = calls + 1) =>
       /\ data' = data
       /\ param_' = param_
       /\ \A b \in Bufs \ {Output(loc'.op)} : mem'[b] = mem[b]
    ]_vars

\* a second call computed the Hessian through a mapping: h_pos is shifted,
\* p holds the curvature weights, grad_pos and pred are the caller's
C8_Witness ==
  /\ calls = 2 /\ loc.op = "CalcGrad" /\ loc.stage = 3 /\ loc.psize = 2
  /\ mem.grad_pos # NULL
  /\ loc.h_pos # mem.grad_pos
  /\ loc.tau # mem.pred /\ loc.p # mem.pred

\* C9: in a call that runs the Hessian multiply, the squared block has the size, offsets, indices and labels of the
\* block, and at every position of its rows the value is the square of the
\* block's value there, inside the buffer of the squares; a block without
\* values gives a squared block without values.
C9_SquaredBlock ==
  (loc.op = "CalcGrad" /\ loc.stage = 3) =>
    /\ loc.XX.size = data.size
    /\ loc.XX.offset = data.offset
    /\ loc.XX.index = data.index
    /\ loc.XX.label = data.label
    /\ IF data.value = NULL THEN loc.XX.value = NULL
       ELSE \A k \in data.offset[1]..(data.offset[data.size + 1] - 1) :
              /\ k < Len(loc.xx_value)
              /\ loc.XX.value[k + 1] = data.value[k + 1] * data.value[k + 1]

\* 1 / (1 + exp(y * pred))
Sigmoid(lab, pr) ==
  IF ExpFix(Sign(lab) * pr) > MaxFinite THEN 0
  ELSE (SCALE * SCALE) \div (SCALE + ExpFix(Sign(lab) * pr))

\* C10 as claimed: p_i = tau_i * (1 - tau_i) with tau_i the step-1 value
\* - y / (1 + exp(y * pred[i])), the value fed to the gradient multiply.
C10_CurvatureFromTau ==
  (loc.op = "CalcGrad" /\ loc.stage = 3) =>
    \A i \in 1..Len(loc.p) :
      /\ loc.tau[i] = (-Sign(data.label[i])) * Sigmoid(data.label[i], mem.pred[i])
      /\ loc.p[i] = (loc.tau[i] * (SCALE - loc.tau[i])) \div SCALE

\* C10 amended: p_i = t_i * (1 - t_i) with t_i = - y * tau_i = |tau_i|
\* = 1 / (1 + exp(y * pred[i])), where tau_i is the step-1 value, the value
\* fed to the gradient multiply.
C10_CurvatureFromAbsTau ==
  (loc.op = "CalcGrad" /\ loc.stage = 3) =>
    \A i \in 1..Len(loc.p) :
      /\ loc.tau[i] = (-Sign(data.label[i])) * Sigmoid(data.label[i], mem.pred[i])
      /\ loc.p[i] = (Abs(loc.tau[i]) * (SCALE - Abs(loc.tau[i]))) \div SCALE
      /\ Abs(loc.tau[i]) = (-Sign(data.label[i])) * loc.tau[i]

\* a positive label with tau = -0.5 and p = 0.25
C10_Witness ==
  /\ loc.op = "CalcGrad" /\ loc.stage = 3
  /\ data.label[1] > 0 /\ mem.pred[1] = 0
  /\ 2 * loc.tau[1] = -SCALE /\ 4 * loc.p[1] = SCALE

====
